---- MODULE Spec2Model ----
(***************************************************************************)
(* Model of src/delay.rs: the delay generators Exponential, Fibonacci,     *)
(* Fixed, NoDelay and Range, and the function jitter.                      *)
(*                                                                         *)
(* Machine words are modelled at reduced width so that the whole value     *)
(* space can be enumerated: u64 has Width bits, u32 has U32Width bits and  *)
(* f64 has a MantBits-bit significand.  The orderings of the real machine  *)
(* are kept:                                                               *)
(*    NANOS_PER_SEC  <  2^32      <  2^53       <  2^64 / MILLIS_PER_SEC   *)
(*    NanosPerSec    <= U32Modulus <= 2^MantBits <  Modulus \div MillisPerSec *)
(* so, as in the program, every sub-second nanosecond count converts to    *)
(* f64 exactly while a large u64 seconds count does not.                   *)
(***************************************************************************)
EXTENDS Integers, Sequences, FiniteSets, TLC

\* ------------------------------------------------------------------ bounds
Width == 8
U32Width == 4
MantBits == 5
JBits == 3
MillisPerSec == 5
NanosPerMilli == 2
MaxPulls == 8
MaxSharedPulls == 4

Modulus == 2^Width
U32Modulus == 2^U32Width
NanosPerSec == MillisPerSec * NanosPerMilli
Scale == 2^JBits

Instances == {1, 2}

U64 == 0..(Modulus - 1)

\* ------------------------------------------------- std::time::Duration
\* Duration::new(secs, nanos): whole seconds carried out of nanos; the
\* checked addition panics on overflow.
DurationNew(secs, nanos) ==
    LET s == secs + (nanos \div NanosPerSec)
    IN  IF s >= Modulus
        THEN [tag |-> "Panic"]
        ELSE [tag |-> "Duration", secs |-> s, nanos |-> nanos % NanosPerSec]

\* Duration::from_millis(millis)
FromMillis(millis) ==
    [tag |-> "Duration",
     secs |-> millis \div MillisPerSec,
     nanos |-> (millis % MillisPerSec) * NanosPerMilli]

\* Duration::default()
DurationDefault == [tag |-> "Duration", secs |-> 0, nanos |-> 0]

\* Option<Duration>
Some(d) == [tag |-> "Some", value |-> d]
NoCall == [tag |-> "NoCall"]
Panicked == [tag |-> "Panic"]

\* --------------------------------------------------------- u64 arithmetic
\* `a * b` and `a + b` on u64: with overflow checks (debug profile) an
\* overflowing operation panics, without them (release profile) it wraps.
Overflows(x) == x >= Modulus
Wrap(x) == x % Modulus

\* --------------------------------------------------------------- state
VARIABLES
    overflow_checks,  \* build profile: TRUE = overflow checks on
    gen,              \* gen[i]: the fields of generator instance i
    status,           \* status[i]: "unbuilt", "ready" or "panicked"
    args,             \* args[i]: the arguments instance i was constructed with
    pulls,            \* pulls[i]: number of next() calls that have returned
    last,             \* last[i]: what the latest next() call produced
    jcall,            \* the jitter call: its input, drawn fraction and result
    synchronized,     \* shared use: TRUE = callers hold a mutex around a pull
    lock,             \* shared use: the consumer holding the mutex, or "free"
    cons,             \* shared use: cons[c], where consumer c is in next()
    handed            \* shared use: the values handed out, in order of return

sharedvars == <<synchronized, lock, cons, handed>>
vars == <<overflow_checks, gen, status, args, pulls, last, jcall,
          synchronized, lock, cons, handed>>
genvars == <<overflow_checks, gen, status, args, pulls, last, sharedvars>>

\* The consumers that share one generator instance.
Consumers == {"a", "b"}
Idle == [pc |-> "idle", duration |-> DurationDefault, word |-> 0]

Unbuilt == [kind |-> "none"]
NoArgs == [ctor |-> "none"]
JitterIdle == [state |-> "none"]

Init ==
    /\ overflow_checks \in BOOLEAN
    /\ gen = [i \in Instances |-> Unbuilt]
    /\ status = [i \in Instances |-> "unbuilt"]
    /\ args = [i \in Instances |-> NoArgs]
    /\ pulls = [i \in Instances |-> 0]
    /\ last = [i \in Instances |-> NoCall]
    /\ jcall = JitterIdle
    /\ synchronized = FALSE
    /\ lock = "free"
    /\ cons = [c \in Consumers |-> Idle]
    /\ handed = <<>>

\* Arguments the constructors are called with.
MillisInputs == {0, 1, 2, 3, 10, 16, Modulus - 1}

\* A constructor returned: instance i holds the value g.
Construct(i, g, a) ==
    /\ status[i] = "unbuilt"
    /\ gen' = [gen EXCEPT ![i] = g]
    /\ status' = [status EXCEPT ![i] = "ready"]
    /\ args' = [args EXCEPT ![i] = a]
    /\ UNCHANGED <<overflow_checks, pulls, last, jcall, sharedvars>>

\* the fields are kept in one place for all instances of a kind
ReturnToAllOfKind(i, g, d) ==
    /\ gen' = [k \in Instances |->
                   IF gen[k].kind = g.kind THEN g ELSE gen[k]]
    /\ pulls' = [pulls EXCEPT ![i] = @ + 1]
    /\ last' = [last EXCEPT ![i] = Some(d)]
    /\ UNCHANGED <<overflow_checks, status, args, jcall, sharedvars>>

\* next() on instance i returned Some(d) and left the fields g.
Return(i, g, d) ==
    /\ gen' = [gen EXCEPT ![i] = g]
    /\ pulls' = [pulls EXCEPT ![i] = @ + 1]
    /\ last' = [last EXCEPT ![i] = Some(d)]
    /\ UNCHANGED <<overflow_checks, status, args, jcall, sharedvars>>

\* next() on instance i panicked: the call returns nothing.
Panic(i) ==
    /\ status' = [status EXCEPT ![i] = "panicked"]
    /\ last' = [last EXCEPT ![i] = Panicked]
    /\ UNCHANGED <<overflow_checks, gen, args, pulls, jcall, sharedvars>>

CanPull(i, kind) ==
    /\ status[i] = "ready"
    /\ gen[i].kind = kind
    /\ pulls[i] < MaxPulls

\* ---------------------------------------------------------- Exponential
\* `current` starts at one instead of at the base
ExponentialFromMillisFromOne(i, base) ==
    Construct(i, [kind |-> "Exponential", base |-> base, current |-> 1],
              [ctor |-> "Exponential", base |-> base])

ExponentialFromMillis(i, base) ==
    Construct(i, [kind |-> "Exponential", base |-> base, current |-> base],
              [ctor |-> "Exponential", base |-> base])

ExponentialProductAdds(g) == g.current + g.base

\* self.current * self.base, before the overflow policy is applied
ExponentialProduct(g) == g.current * g.base

\* the multiplication comes first and the multiplied value is returned
ExponentialNextReturnsProduct(i) ==
    /\ CanPull(i, "Exponential")
    /\ LET product == ExponentialProduct(gen[i])
           duration == FromMillis(Wrap(product))
       IN  IF Overflows(product) /\ overflow_checks
           THEN Panic(i)
           ELSE Return(i, [gen[i] EXCEPT !.current = Wrap(product)], duration)

ExponentialNext(i) ==
    /\ CanPull(i, "Exponential")
    /\ LET duration == FromMillis(gen[i].current)
           product == ExponentialProduct(gen[i])
       IN  IF Overflows(product) /\ overflow_checks
           THEN Panic(i)
           ELSE Return(i, [gen[i] EXCEPT !.current = Wrap(product)], duration)

\* ------------------------------------------------------------ Fibonacci
FibonacciFromMillis(i, millis) ==
    Construct(i, [kind |-> "Fibonacci", curr |-> millis, next |-> millis],
              [ctor |-> "Fibonacci", millis |-> millis])

FibonacciSumDoubles(g) == g.next + g.next
FibonacciSumSubtracts(g) == g.next - g.curr

\* self.curr + self.next, before the overflow policy is applied
FibonacciSum(g) == g.curr + g.next

FibonacciNext(i) ==
    /\ CanPull(i, "Fibonacci")
    /\ LET next_next == FibonacciSum(gen[i])
           duration == FromMillis(gen[i].curr)
       IN  IF Overflows(next_next) /\ overflow_checks
           THEN Panic(i)
           ELSE Return(i, [gen[i] EXCEPT !.curr = gen[i].next,
                                         !.next = Wrap(next_next)], duration)

\* ---------------------------------------------------------------- Fixed
FixedFromMillis(i, millis) ==
    Construct(i, [kind |-> "Fixed", duration |-> FromMillis(millis)],
              [ctor |-> "Fixed", millis |-> millis])

FixedValueTruncated(g) == [g.duration EXCEPT !.nanos = 0]

\* Some(self.duration)
FixedValue(g) == g.duration

FixedNext(i) ==
    /\ CanPull(i, "Fixed")
    /\ Return(i, gen[i], FixedValue(gen[i]))

\* -------------------------------------------------------------- NoDelay
NoDelayNew(i) ==
    Construct(i, [kind |-> "NoDelay"], [ctor |-> "NoDelay"])

NoDelayValueOneMilli == FromMillis(1)

\* Some(Duration::default())
NoDelayValue == DurationDefault

NoDelayNext(i) ==
    /\ CanPull(i, "NoDelay")
    /\ Return(i, gen[i], NoDelayValue)

\* ---------------------------------------------------------------- Range
RandRangeAcceptsUnequal(low, high) == low # high
RandRangeAcceptsWide(low, high) == low + 1 < high

\* rand::distributions::Range::new asserts low < high.
RandRangeAccepts(low, high) == low < high

\* rand's construct_range for u64: the width of the range and the largest
\* multiple of it that fits in the word (the accept zone of the rejection
\* sampler).
RandRangeNew(low, high) ==
    LET range == Wrap(high - low + Modulus)
        unsigned_max == Modulus - 1
    IN  [low |-> low,
         range |-> range,
         accept_zone |-> unsigned_max - (unsigned_max % range)]

\* rand's sample_range: a raw word v inside the accept zone is reduced to
\* low + v % range (wrapping); a word outside it is drawn again.
RandRangeAccepted(r, v) == v < r.accept_zone
RandRangeSampleInclusive(r, v) == Wrap(r.low + (v % (r.range + 1)))
RandRangeSample(r, v) == Wrap(r.low + (v % r.range))

\* Constructor arguments: small bounds, and bounds at the top of the word.
RangeInputs == ({0, 1, 3} \X {0, 1, 3})
               \cup ({Modulus - 2, Modulus - 1} \X {Modulus - 2, Modulus - 1})

\* Raw words the random source hands the sampler: the lowest words and the
\* highest ones, which lie outside every accept zone.
RawWords == (0..7) \cup ((Modulus - 4)..(Modulus - 1))

RangeFromMillis(i, minimum, maximum) ==
    /\ status[i] = "unbuilt"
    /\ IF RandRangeAccepts(minimum, maximum)
       THEN Construct(i, [kind |-> "Range",
                          range |-> RandRangeNew(minimum, maximum)],
                      [ctor |-> "Range", minimum |-> minimum,
                       maximum |-> maximum])
       ELSE /\ status' = [status EXCEPT ![i] = "panicked"]
            /\ args' = [args EXCEPT ![i] =
                           [ctor |-> "Range", minimum |-> minimum,
                            maximum |-> maximum]]
            /\ UNCHANGED <<overflow_checks, gen, pulls, last, jcall,
                           sharedvars>>

RangeNext(i) ==
    /\ CanPull(i, "Range")
    /\ \E v \in RawWords :
        /\ RandRangeAccepted(gen[i].range, v)
        /\ Return(i, gen[i], FromMillis(RandRangeSample(gen[i].range, v)))

Next ==
    \E i \in Instances :
        \/ \E m \in MillisInputs : ExponentialFromMillis(i, m)
        \/ ExponentialNext(i)
        \/ \E m \in MillisInputs : FibonacciFromMillis(i, m)
        \/ FibonacciNext(i)
        \/ \E m \in MillisInputs : FixedFromMillis(i, m)
        \/ FixedNext(i)
        \/ NoDelayNew(i)
        \/ NoDelayNext(i)
        \/ \E a \in RangeInputs : RangeFromMillis(i, a[1], a[2])
        \/ RangeNext(i)

Spec == Init /\ [][Next]_vars

\* ----------------------------------------------------------- shared use
\* Several consumers call next() on instance Shared.  Here next() is not one
\* step: each consumer runs it statement by statement, a load or a store of
\* a field at a time, and the consumers' statements interleave.  When the
\* callers synchronize, a consumer takes the mutex before it enters next()
\* and gives it back when next() has returned.
Shared == 1

SharedInputs == {1, 2, 10}

Started == Len(handed) + Cardinality({c \in Consumers : cons[c].pc # "idle"})

At(c, kind, pc) ==
    /\ status[Shared] = "ready"
    /\ gen[Shared].kind = kind
    /\ cons[c].pc = pc

\* Consumer c goes on to pc with the locals duration and word.
Step(c, pc, duration, word) ==
    cons' = [cons EXCEPT ![c] = [pc |-> pc, duration |-> duration,
                                 word |-> word]]

Enter(c) ==
    /\ status[Shared] = "ready"
    /\ gen[Shared].kind \in {"Exponential", "Fibonacci", "Fixed", "NoDelay"}
    /\ cons[c].pc = "idle"
    /\ Started < MaxSharedPulls
    /\ IF synchronized
       THEN lock = "free" /\ lock' = c
       ELSE UNCHANGED lock
    /\ Step(c, "entered", DurationDefault, 0)
    /\ UNCHANGED <<overflow_checks, gen, status, args, pulls, last, jcall,
                   synchronized, handed>>

\* The statement consumer c is at panics.
SharedPanic(c) ==
    /\ status' = [status EXCEPT ![Shared] = "panicked"]
    /\ last' = [last EXCEPT ![Shared] = Panicked]
    /\ Step(c, "panicked", cons[c].duration, cons[c].word)
    /\ UNCHANGED <<overflow_checks, gen, args, pulls, jcall, synchronized,
                   lock, handed>>

\* The statement consumer c is at leaves the fields g.
SharedStep(c, g, pc, duration, word) ==
    /\ gen' = [gen EXCEPT ![Shared] = g]
    /\ Step(c, pc, duration, word)
    /\ UNCHANGED <<overflow_checks, status, args, pulls, last, jcall,
                   synchronized, lock, handed>>

\* Exponential::next, line 30: let duration = Duration::from_millis(self.current)
ExpLoadDuration(c) ==
    /\ At(c, "Exponential", "entered")
    /\ SharedStep(c, gen[Shared], "exp32",
                  FromMillis(gen[Shared].current), 0)

ExpMultiplySquares(c) ==
    /\ At(c, "Exponential", "exp32")
    /\ LET product == gen[Shared].current * gen[Shared].current
       IN  IF Overflows(product) /\ overflow_checks
           THEN SharedPanic(c)
           ELSE SharedStep(c, gen[Shared], "exp32store", cons[c].duration,
                           Wrap(product))

\* line 32, right-hand side: self.current * self.base
ExpMultiply(c) ==
    /\ At(c, "Exponential", "exp32")
    /\ LET product == ExponentialProduct(gen[Shared])
       IN  IF Overflows(product) /\ overflow_checks
           THEN SharedPanic(c)
           ELSE SharedStep(c, gen[Shared], "exp32store", cons[c].duration,
                           Wrap(product))

\* line 32, the store: self.current = ...
ExpStore(c) ==
    /\ At(c, "Exponential", "exp32store")
    /\ SharedStep(c, [gen[Shared] EXCEPT !.current = cons[c].word], "return",
                  cons[c].duration, cons[c].word)

\* Fibonacci::next, line 63: let next_next = self.curr + self.next
FibAdd(c) ==
    /\ At(c, "Fibonacci", "entered")
    /\ LET next_next == FibonacciSum(gen[Shared])
       IN  IF Overflows(next_next) /\ overflow_checks
           THEN SharedPanic(c)
           ELSE SharedStep(c, gen[Shared], "fib64", cons[c].duration,
                           Wrap(next_next))

\* line 64: let duration = Duration::from_millis(self.curr)
FibLoadDuration(c) ==
    /\ At(c, "Fibonacci", "fib64")
    /\ SharedStep(c, gen[Shared], "fib66", FromMillis(gen[Shared].curr),
                  cons[c].word)

\* line 66: self.curr = self.next
FibStoreCurr(c) ==
    /\ At(c, "Fibonacci", "fib66")
    /\ SharedStep(c, [gen[Shared] EXCEPT !.curr = gen[Shared].next], "fib67",
                  cons[c].duration, cons[c].word)

\* line 67: self.next = next_next
FibStoreNext(c) ==
    /\ At(c, "Fibonacci", "fib67")
    /\ SharedStep(c, [gen[Shared] EXCEPT !.next = cons[c].word], "return",
                  cons[c].duration, cons[c].word)

\* the duration is moved out of the generator, which is left holding zero
FixedLoadTakes(c) ==
    /\ At(c, "Fixed", "entered")
    /\ SharedStep(c, [gen[Shared] EXCEPT !.duration = DurationDefault],
                  "return", FixedValue(gen[Shared]), 0)

\* Fixed::next, line 103: self.duration
FixedLoad(c) ==
    /\ At(c, "Fixed", "entered")
    /\ SharedStep(c, gen[Shared], "return", FixedValue(gen[Shared]), 0)

\* NoDelay::next, line 115: Duration::default()
NoDelayLoad(c) ==
    /\ At(c, "NoDelay", "entered")
    /\ SharedStep(c, gen[Shared], "return", NoDelayValue, 0)

\* next() returns Some(duration) to consumer c.
SharedReturn(c) ==
    /\ status[Shared] = "ready"
    /\ cons[c].pc = "return"
    /\ handed' = Append(handed, [consumer |-> c, value |-> cons[c].duration])
    /\ pulls' = [pulls EXCEPT ![Shared] = @ + 1]
    /\ last' = [last EXCEPT ![Shared] = Some(cons[c].duration)]
    /\ lock' = IF synchronized THEN "free" ELSE lock
    /\ cons' = [cons EXCEPT ![c] = Idle]
    /\ UNCHANGED <<overflow_checks, gen, status, args, jcall, synchronized>>

InitShared ==
    /\ overflow_checks \in BOOLEAN
    /\ gen = [i \in Instances |-> Unbuilt]
    /\ status = [i \in Instances |-> "unbuilt"]
    /\ args = [i \in Instances |-> NoArgs]
    /\ pulls = [i \in Instances |-> 0]
    /\ last = [i \in Instances |-> NoCall]
    /\ jcall = JitterIdle
    /\ synchronized \in BOOLEAN
    /\ lock = "free"
    /\ cons = [c \in Consumers |-> Idle]
    /\ handed = <<>>

NextShared ==
    \/ \E m \in SharedInputs : ExponentialFromMillis(Shared, m)
    \/ \E m \in SharedInputs : FibonacciFromMillis(Shared, m)
    \/ \E m \in SharedInputs : FixedFromMillis(Shared, m)
    \/ NoDelayNew(Shared)
    \/ \E c \in Consumers :
        \/ Enter(c)
        \/ ExpLoadDuration(c)
        \/ ExpMultiply(c)
        \/ ExpStore(c)
        \/ FibAdd(c)
        \/ FibLoadDuration(c)
        \/ FibStoreCurr(c)
        \/ FibStoreNext(c)
        \/ FixedLoad(c)
        \/ NoDelayLoad(c)
        \/ SharedReturn(c)

SpecShared == InitShared /\ [][NextShared]_vars

\* --------------------------------------------------------------- jitter
\* An f64 value x is held as the integer x * Scale, so that the fractions
\* k / Scale, k in 0..Scale, are values of the model.
RECURSIVE BitLen(_)
BitLen(n) == IF n = 0 THEN 0 ELSE 1 + BitLen(n \div 2)

\* Round to nearest, ties to even, keeping MantBits significant bits.
RoundToMant(n) ==
    IF n < 2^MantBits
    THEN n
    ELSE LET ulp == 2^(BitLen(n) - MantBits)
             lo == (n \div ulp) * ulp
             rem == n - lo
         IN  IF 2 * rem < ulp THEN lo
             ELSE IF 2 * rem > ulp THEN lo + ulp
             ELSE IF (lo \div ulp) % 2 = 0 THEN lo ELSE lo + ulp

\* `x as f64` for an unsigned integer x
AsF64(x) == RoundToMant(x) * Scale

\* a * b in f64, for an integer-valued a
F64Mul(a, b) == RoundToMant((a * b) \div Scale)

\* f64::ceil
F64Ceil(a) == ((a + Scale - 1) \div Scale) * Scale

\* `a as u64` / `a as u32` for an integer-valued a >= 0: the value when it is
\* in range; out of range the cast saturates on current compilers and was
\* undefined on earlier ones, so any word may result.
F64AsU64(a) == IF a \div Scale < Modulus THEN {a \div Scale} ELSE U64
F64AsU32(a) == IF a \div Scale < U32Modulus THEN {a \div Scale}
               ELSE 0..(U32Modulus - 1)

\* Closed01<f64>: the drawn fraction k / Scale
Closed01 == 0..Scale

\* the seconds of the whole duration scaled as one number and rounded once
JitterSecsOfWhole(duration, jitter) ==
    { ((((duration.secs * NanosPerSec + duration.nanos) * jitter)
            + Scale - 1) \div Scale) \div NanosPerSec }

\* ((duration.as_secs() as f64) * jitter).ceil() as u64
JitterSecs(duration, jitter) ==
    F64AsU64(F64Ceil(F64Mul(AsF64(duration.secs), jitter)))

\* ((duration.subsec_nanos() as f64) * jitter).ceil() as u32
JitterNanos(duration, jitter) ==
    F64AsU32(F64Ceil(F64Mul(AsF64(duration.nanos), jitter)))

\* The durations jitter(duration) can return when the fraction drawn is
\* jitter.
Jitter(duration, jitter) ==
    { DurationNew(secs, nanos) : secs \in JitterSecs(duration, jitter),
                                 nanos \in JitterNanos(duration, jitter) }

Durations ==
    { [tag |-> "Duration", secs |-> s, nanos |-> n] :
          s \in U64, n \in 0..(NanosPerSec - 1) }

InitJitter ==
    /\ overflow_checks \in BOOLEAN
    /\ gen = [i \in Instances |-> Unbuilt]
    /\ status = [i \in Instances |-> "unbuilt"]
    /\ args = [i \in Instances |-> NoArgs]
    /\ pulls = [i \in Instances |-> 0]
    /\ last = [i \in Instances |-> NoCall]
    /\ \E d \in Durations, j \in Closed01 :
           jcall = [state |-> "called", duration |-> d, jitter |-> j]
    /\ synchronized = FALSE
    /\ lock = "free"
    /\ cons = [c \in Consumers |-> Idle]
    /\ handed = <<>>

JitterCall ==
    /\ jcall.state = "called"
    /\ \E r \in Jitter(jcall.duration, jcall.jitter) :
           jcall' = [state |-> "returned", duration |-> jcall.duration,
                     jitter |-> jcall.jitter, result |-> r]
    /\ UNCHANGED genvars

NextJitter == JitterCall

SpecJitter == InitJitter /\ [][NextJitter]_vars

\* ============================================================== claims
\* Reference arithmetic, capped at Modulus so that a capped value means
\* "does not fit the word".
Cap(x) == IF x >= Modulus THEN Modulus ELSE x

RECURSIVE FibCap(_, _)
\* s * F(k), F(1) = F(2) = 1, F(k+2) = F(k+1) + F(k)
FibCap(s, k) ==
    IF k <= 2 THEN Cap(s) ELSE Cap(FibCap(s, k - 1) + FibCap(s, k - 2))

RECURSIVE PowCap(_, _)
\* b^n
PowCap(b, n) == IF n = 0 THEN 1 ELSE Cap(PowCap(b, n - 1) * b)

RECURSIVE PowMod(_, _)
\* b^n modulo 2^Width
PowMod(b, n) == IF n = 0 THEN 1 ELSE (PowMod(b, n - 1) * b) % Modulus

RECURSIVE FibMod(_, _)
\* s * F(k) modulo 2^Width
FibMod(s, k) ==
    IF k <= 2 THEN s ELSE (FibMod(s, k - 1) + FibMod(s, k - 2)) % Modulus

\* the largest word, for a value that does not fit
Saturate(x) == IF x >= Modulus THEN Modulus - 1 ELSE x

Pulled(i, kind) == gen[i].kind = kind /\ last[i].tag = "Some"

\* C1: the k-th value a Fibonacci generator seeded with s returns is
\* s * F(k) milliseconds, for every k whose s * F(k) fits the word; and a
\* pull fails to return only when its sum curr + next = s * F(k+2) does not
\* fit the word.
C1_FibonacciSequence ==
    \A i \in Instances :
        gen[i].kind = "Fibonacci" =>
            /\ last[i].tag = "Some" =>
                   LET v == FibCap(args[i].millis, pulls[i])
                   IN  v < Modulus => last[i].value = FromMillis(v)
            /\ status[i] = "panicked" =>
                   FibCap(args[i].millis, pulls[i] + 3) >= Modulus

\* C1 witness: seed 10 has returned its sixth value, 80 ms.
C1_Witness ==
    \E i \in Instances :
        /\ Pulled(i, "Fibonacci")
        /\ args[i].millis = 10
        /\ pulls[i] = 6
        /\ last[i].value = FromMillis(80)

\* C2: the n-th value an Exponential generator of base b returns is b^n
\* milliseconds, for every n whose b^n fits the word; and a pull fails to
\* return only when its product current * base = b^(n+1) does not fit the
\* word.
C2_ExponentialSequence ==
    \A i \in Instances :
        gen[i].kind = "Exponential" =>
            /\ last[i].tag = "Some" =>
                   LET v == PowCap(args[i].base, pulls[i])
                   IN  v < Modulus => last[i].value = FromMillis(v)
            /\ status[i] = "panicked" =>
                   PowCap(args[i].base, pulls[i] + 2) >= Modulus

\* C2 witness: base 2 has returned its fourth value, 16 ms.
C2_Witness ==
    \E i \in Instances :
        /\ Pulled(i, "Exponential")
        /\ args[i].base = 2
        /\ pulls[i] = 4
        /\ last[i].value = FromMillis(16)

\* C3: every pull on every generator returns Some(duration): no pull ends
\* the sequence and no pull fails.
C3_EveryPullReturns ==
    \A i \in Instances :
        gen[i].kind # "none" => /\ status[i] = "ready"
                                /\ last[i].tag \in {"NoCall", "Some"}

\* C4: a pull of Exponential or Fibonacci whose state update overflows still
\* returns, and leaves the state wrapped modulo 2^Width or saturated.
C4_OverflowIsNotAnError ==
    \A i \in Instances :
        /\ gen[i].kind = "Exponential" =>
               /\ status[i] = "ready"
               /\ last[i].tag \in {"NoCall", "Some"}
               /\ gen[i].current \in
                      {PowMod(args[i].base, pulls[i] + 1),
                       Saturate(PowCap(args[i].base, pulls[i] + 1))}
        /\ gen[i].kind = "Fibonacci" =>
               /\ status[i] = "ready"
               /\ last[i].tag \in {"NoCall", "Some"}
               /\ gen[i].next \in
                      {FibMod(args[i].millis, pulls[i] + 2),
                       Saturate(FibCap(args[i].millis, pulls[i] + 2))}

\* C5: every value a Range generator returns is m milliseconds with
\* minimum <= m < maximum, for the bounds given at construction, which the
\* generator keeps unchanged.
C5_RangeWithinBounds ==
    \A i \in Instances :
        gen[i].kind = "Range" =>
            /\ gen[i].range.low = args[i].minimum
            /\ gen[i].range.low + gen[i].range.range = args[i].maximum
            /\ last[i].tag = "Some" =>
                   \E m \in args[i].minimum..(args[i].maximum - 1) :
                       last[i].value = FromMillis(m)

\* C5 witness: a Range over [0, 3) has been pulled several times and has
\* just returned its largest value, 2 ms.
C5_Witness ==
    \E i \in Instances :
        /\ Pulled(i, "Range")
        /\ args[i].minimum = 0 /\ args[i].maximum = 3
        /\ pulls[i] >= 3
        /\ last[i].value = FromMillis(2)

\* C6: Range::from_millis with minimum > maximum fails at construction: no
\* generator exists and no pull is ever made on it.
C6_ReversedRangeRejected ==
    \A i \in Instances :
        (args[i].ctor = "Range" /\ args[i].minimum > args[i].maximum) =>
            /\ status[i] = "panicked"
            /\ gen[i] = Unbuilt
            /\ pulls[i] = 0
            /\ last[i] = NoCall

\* C6 witness: Range::from_millis(3, 1) was called.
C6_Witness ==
    \E i \in Instances :
        /\ args[i].ctor = "Range"
        /\ args[i].minimum = 3 /\ args[i].maximum = 1
        /\ status[i] = "panicked"

\* C7 as stated: construction succeeds exactly when minimum <= maximum.
C7_AcceptsMinimumLeMaximum ==
    \A i \in Instances :
        args[i].ctor = "Range" =>
            (status[i] # "panicked" <=> args[i].minimum <= args[i].maximum)

\* C7 amended: construction succeeds exactly when minimum < maximum; it is
\* rejected when minimum >= maximum, the case minimum = maximum included.
C7_AcceptsMinimumLtMaximum ==
    \A i \in Instances :
        args[i].ctor = "Range" =>
            /\ status[i] # "panicked" <=> args[i].minimum < args[i].maximum
            /\ status[i] # "panicked" <=> gen[i].kind = "Range"

\* C7 witness: Range::from_millis(1, 1) was called and was rejected, while
\* the other instance was built from (0, 1).
C7_Witness ==
    \E i, k \in Instances :
        /\ args[i].ctor = "Range"
        /\ args[i].minimum = 1 /\ args[i].maximum = 1
        /\ status[i] = "panicked"
        /\ args[k].ctor = "Range"
        /\ args[k].minimum = 0 /\ args[k].maximum = 1
        /\ status[k] = "ready"

\* C8: every value a Fixed generator built from d returns is d milliseconds,
\* and the stored duration stays the one it was built with.
C8_FixedIsConstant ==
    \A i \in Instances :
        gen[i].kind = "Fixed" =>
            /\ status[i] = "ready"
            /\ gen[i].duration = FromMillis(args[i].millis)
            /\ last[i].tag \in {"NoCall", "Some"}
            /\ last[i].tag = "Some" =>
                   last[i].value = FromMillis(args[i].millis)

\* C8 witness: a Fixed generator of 16 ms has been pulled MaxPulls times.
C8_Witness ==
    \E i \in Instances :
        /\ Pulled(i, "Fixed")
        /\ args[i].millis = 16
        /\ pulls[i] = MaxPulls
        /\ last[i].value = FromMillis(16)

\* C9: every value a NoDelay generator returns is the zero duration.
C9_NoDelayIsZero ==
    \A i \in Instances :
        gen[i].kind = "NoDelay" =>
            /\ status[i] = "ready"
            /\ last[i].tag \in {"NoCall", "Some"}
            /\ last[i].tag = "Some" =>
                   (last[i].value.secs = 0 /\ last[i].value.nanos = 0)

\* C9 witness: a NoDelay generator has been pulled MaxPulls times.
C9_Witness ==
    \E i \in Instances :
        /\ Pulled(i, "NoDelay")
        /\ pulls[i] = MaxPulls

\* C10: jitter(d) lies in [0, d]: its seconds are at most d's, its
\* nanoseconds at most d's sub-second nanoseconds; the fraction 1 returns d
\* and the fraction 0 returns zero.
C10_JitterWithinInput ==
    jcall.state = "returned" =>
        /\ jcall.result.tag = "Duration"
        /\ jcall.result.secs <= jcall.duration.secs
        /\ jcall.result.nanos <= jcall.duration.nanos
        /\ jcall.jitter = Scale => jcall.result = jcall.duration
        /\ jcall.jitter = 0 => jcall.result = DurationDefault

\* Reference f64 arithmetic, stated by what a rounded value is rather than
\* by how it is computed: n (in any power-of-two unit) is representable when
\* its odd part has at most MantBits bits, and the value nearest to n is the
\* closer of the representable values around it, the one with the even
\* significand on a tie.
RECURSIVE OddPart(_)
OddPart(n) == IF n = 0 \/ n % 2 = 1 THEN n ELSE OddPart(n \div 2)

Representable(n) == OddPart(n) < 2^MantBits

RECURSIVE RepBelow(_)
RepBelow(n) == IF Representable(n) THEN n ELSE RepBelow(n - 1)

RECURSIVE RepAbove(_)
RepAbove(n) == IF Representable(n) THEN n ELSE RepAbove(n + 1)

Nearest(n) ==
    LET lo == RepBelow(n)
        hi == RepAbove(n)
    IN  IF n - lo < hi - n THEN lo
        ELSE IF n - lo > hi - n THEN hi
        ELSE IF lo = hi \/ (lo \div (hi - lo)) % 2 = 0 THEN lo ELSE hi

\* ceil(x * j) in f64 for an unsigned integer x and the fraction j = k / Scale
CeilOfProduct(x, k) ==
    (Nearest(Nearest(x) * k) + Scale - 1) \div Scale

C12_FixedAndNoDelayShared ==
    /\ gen[Shared].kind = "Fixed" =>
           /\ status[Shared] = "ready"
           /\ gen[Shared] = [kind |-> "Fixed",
                             duration |-> FromMillis(args[Shared].millis)]
           /\ \A k \in 1..Len(handed) :
                  handed[k].value = FromMillis(args[Shared].millis)
           /\ \A c \in Consumers :
                  cons[c].pc = "return" =>
                      cons[c].duration = FromMillis(args[Shared].millis)
    /\ gen[Shared].kind = "NoDelay" =>
           /\ status[Shared] = "ready"
           /\ gen[Shared] = [kind |-> "NoDelay"]
           /\ \A k \in 1..Len(handed) :
                  handed[k].value.secs = 0 /\ handed[k].value.nanos = 0

\* C12 witness: without a mutex, both consumers are inside next() of one
\* Fixed instance of 2 ms at once, after each of them was handed a value.
C12_Witness ==
    /\ ~synchronized
    /\ gen[Shared].kind = "Fixed"
    /\ args[Shared].millis = 2
    /\ \A c \in Consumers : cons[c].pc = "return"
    /\ \A c \in Consumers : \E k \in 1..Len(handed) : handed[k].consumer = c

\* C13: when every pull on a shared Exponential or Fibonacci instance runs
\* under the mutex, the values handed out, in the order the pulls execute,
\* are the single-consumer sequence: the k-th pull to return hands out the
\* k-th value, whichever consumer makes it.
C13_SynchronizedSharedSequence ==
    synchronized =>
        /\ gen[Shared].kind = "Exponential" =>
               \A k \in 1..Len(handed) :
                   handed[k].value =
                       FromMillis(PowMod(args[Shared].base, k))
        /\ gen[Shared].kind = "Fibonacci" =>
               \A k \in 1..Len(handed) :
                   handed[k].value =
                       FromMillis(FibMod(args[Shared].millis, k))
        /\ Cardinality({c \in Consumers : cons[c].pc # "idle"}) <= 1

\* C13 witness: under the mutex the two consumers took turns on an
\* Exponential of base 2 and the fourth value handed out is 16 ms.
C13_Witness ==
    /\ synchronized
    /\ gen[Shared].kind = "Exponential"
    /\ args[Shared].base = 2
    /\ Len(handed) = 4
    /\ handed[1].consumer # handed[2].consumer
    /\ handed[3].consumer # handed[4].consumer
    /\ handed[4].value = FromMillis(16)

\* Two instances built by the same constructor with the same argument that
\* have returned the same number of pulls hold the same fields and returned
\* the same duration last.
SameSequence ==
    \A i, k \in Instances :
        (/\ args[i].ctor \in {"Exponential", "Fibonacci", "Fixed"}
         /\ args[i] = args[k]
         /\ pulls[i] = pulls[k]
         /\ status[i] = "ready" /\ status[k] = "ready") =>
            gen[i] = gen[k] /\ last[i] = last[k]

\* A pull on one instance leaves every other instance as it was.
PullFrame ==
    \A i \in Instances :
        (pulls'[i] # pulls[i] \/ last'[i] # last[i]) =>
            \A k \in Instances \ {i} :
                /\ gen'[k] = gen[k]
                /\ status'[k] = status[k]
                /\ pulls'[k] = pulls[k]
                /\ last'[k] = last[k]

\* C14: instances are independent and deterministic: a pull on one instance
\* never changes another instance, and under any interleaving the k-th pull
\* of one of two like-built Exponential, Fibonacci or Fixed instances
\* returns what the k-th pull of the other returns.
C14_InstancesIndependent == []SameSequence /\ [][PullFrame]_vars

\* C14 witness: two Fibonacci instances seeded with 10, pulled in turns, have
\* each returned their fifth value, 50 ms.
C14_Witness ==
    /\ \A i \in Instances :
           /\ Pulled(i, "Fibonacci")
           /\ args[i].millis = 10
           /\ pulls[i] = 5
           /\ last[i].value = FromMillis(50)

\* In every state an Exponential holds the base it was constructed with.
BaseIsConstructorArgument ==
    \A i \in Instances :
        gen[i].kind = "Exponential" => gen[i].base = args[i].base

\* An Exponential pull that returns hands out the `current` of before the
\* pull, leaves `current` multiplied by `base`, and leaves `base` alone.
ExponentialPullEffect ==
    \A i \in Instances :
        (gen[i].kind = "Exponential" /\ pulls'[i] = pulls[i] + 1) =>
            /\ last'[i] = Some(FromMillis(gen[i].current))
            /\ gen'[i].current = (gen[i].current * gen[i].base) % Modulus
            /\ gen'[i].base = gen[i].base

\* C15: an Exponential pull returns `current` as it was before the pull and
\* only then multiplies `current` by `base`; `base` is never changed by a
\* pull and is the constructor argument in every reachable state.
C15_ExponentialReturnsThenMultiplies ==
    []BaseIsConstructorArgument /\ [][ExponentialPullEffect]_vars

\* C15 witness: an Exponential of base 3 has returned 9 ms and holds 27.
C15_Witness ==
    \E i \in Instances :
        /\ Pulled(i, "Exponential")
        /\ gen[i].base = 3
        /\ pulls[i] = 2
        /\ last[i].value = FromMillis(9)
        /\ gen[i].current = 27

\* C16: the state-advancing arithmetic runs inside the pull that returns the
\* earlier value.  After n returned pulls an Exponential holds b^(n+1) and a
\* Fibonacci holds s*F(n+1), s*F(n+2) as long as these fit the word, so the
\* first overflow falls in the pull that returns b^n with b^(n+1) too large
\* (s*F(k) with s*F(k+2) too large); that pull returns, and every value
\* returned up to and including it is exact.
C16_OverflowAheadOfReturnedValues ==
    \A i \in Instances :
        /\ gen[i].kind = "Exponential" =>
               LET b == args[i].base
                   n == pulls[i]
               IN  /\ status[i] = "ready"
                   /\ PowCap(b, n + 1) < Modulus =>
                          gen[i].current = PowCap(b, n + 1)
                   /\ (last[i].tag = "Some" /\ PowCap(b, n) < Modulus) =>
                          last[i].value = FromMillis(PowCap(b, n))
        /\ gen[i].kind = "Fibonacci" =>
               LET s == args[i].millis
                   n == pulls[i]
               IN  /\ status[i] = "ready"
                   /\ FibCap(s, n + 2) < Modulus =>
                          /\ gen[i].curr = FibCap(s, n + 1)
                          /\ gen[i].next = FibCap(s, n + 2)
                   /\ (last[i].tag = "Some" /\ FibCap(s, n + 1) < Modulus) =>
                          last[i].value = FromMillis(FibCap(s, n))

\* C17: jitter never returns less than the exact scaled value, j * d <=
\* jitter(d) (both sides in nanoseconds, the fraction j = jitter / Scale);
\* so the result is zero only when j = 0 or d = 0, and for d of at least one
\* second and j > 0 it is at least one second.
C17_JitterAtLeastScaled ==
    jcall.state = "returned" =>
        LET d == jcall.duration
            r == jcall.result
        IN  /\ r.tag = "Duration"
            /\ (d.secs * NanosPerSec + d.nanos) * jcall.jitter
                   <= (r.secs * NanosPerSec + r.nanos) * Scale
            /\ (r.secs = 0 /\ r.nanos = 0) =>
                   (jcall.jitter = 0 \/ (d.secs = 0 /\ d.nanos = 0))
            /\ (d.secs >= 1 /\ jcall.jitter > 0) => r.secs >= 1

\* a <= b for durations
DurationLe(a, b) ==
    a.secs < b.secs \/ (a.secs = b.secs /\ a.nanos <= b.nanos)

\* A Fibonacci none of whose pulls has overflowed holds curr <= next.
CurrAtMostNext ==
    \A i \in Instances :
        (/\ gen[i].kind = "Fibonacci"
         /\ status[i] = "ready"
         /\ FibCap(args[i].millis, pulls[i] + 2) < Modulus) =>
            gen[i].curr <= gen[i].next

\* Before overflow a pull of a Fibonacci, or of an Exponential of base >= 1,
\* returns no less than the pull before it.
ReturnsNonDecreasing ==
    \A i \in Instances :
        (pulls'[i] = pulls[i] + 1 /\ last[i].tag = "Some") =>
            /\ (/\ gen[i].kind = "Fibonacci"
                /\ FibCap(args[i].millis, pulls'[i] + 2) < Modulus) =>
                   DurationLe(last[i].value, last'[i].value)
            /\ (/\ gen[i].kind = "Exponential"
                /\ args[i].base >= 1
                /\ PowCap(args[i].base, pulls'[i] + 1) < Modulus) =>
                   DurationLe(last[i].value, last'[i].value)

\* C18: in every state of a Fibonacci reachable before overflow curr <= next,
\* and the durations successive pulls return are non-decreasing; so are
\* those of an Exponential with base >= 1, before overflow.
C18_NonDecreasingBeforeOverflow ==
    []CurrAtMostNext /\ [][ReturnsNonDecreasing]_vars

\* C18 witness: a Fibonacci seeded with 1 has returned 5 ms after 3 ms and
\* holds curr = 8, next = 13.
C18_Witness ==
    \E i \in Instances :
        /\ Pulled(i, "Fibonacci")
        /\ args[i].millis = 1
        /\ pulls[i] = 5
        /\ last[i].value = FromMillis(5)
        /\ gen[i].curr = 8 /\ gen[i].next = 13

\* C19: Exponential::from_millis accepts every base; with base 0 every pull
\* returns 0 ms and with base 1 every pull returns 1 ms, for any number of
\* pulls, and no pull of either overflows: the state stays at the base.
C19_DegenerateBases ==
    \A i \in Instances :
        args[i].ctor = "Exponential" =>
            /\ gen[i].kind = "Exponential"
            /\ args[i].base \in {0, 1} =>
                   /\ status[i] = "ready"
                   /\ gen[i].current = args[i].base
                   /\ last[i].tag \in {"NoCall", "Some"}
                   /\ last[i].tag = "Some" =>
                          last[i].value = FromMillis(args[i].base)

\* C19 witness: Exponentials of base 0 and of base 1 have each been pulled
\* MaxPulls times, with overflow checks on, and one of the largest base was
\* constructed.
C19_Witness ==
    /\ overflow_checks
    /\ \E i, k \in Instances :
           /\ Pulled(i, "Exponential") /\ Pulled(k, "Exponential")
           /\ args[i].base = 0 /\ args[k].base = 1
           /\ pulls[i] = MaxPulls /\ pulls[k] = MaxPulls
           /\ last[i].value = FromMillis(0)
           /\ last[k].value = FromMillis(1)

====
